---------------------------- MODULE Spec2Model ----------------------------
(* Model of docker_download_imgs.py: create the directory "imgs", then     *)
(* retrieve every file of the manifest, in order, from the website into    *)
(* that directory.  The run is a single sequential pass; every exception   *)
(* is unhandled and ends the process.  The script may be run again on the  *)
(* file system a previous run left behind.                                 *)
EXTENDS Integers, Sequences, FiniteSets, TLC

(* ------------------------------ bounds --------------------------------- *)
MaxLen == 3        \* longest manifest explored
MaxBlocks == 2     \* longest response body, in blocks
MaxRuns == 2       \* number of runs of the script on the same file system

(* --------------------------- program constants ------------------------- *)
website == "https://monstermash.zone/imgs/"
DestDir == "imgs"

\* files: the first entries of the hardcoded list, in its order
files == <<"example-antelope.jpg", "example-bird.jpg", "example-box.jpg",
           "example-dino.jpg", "example-dog.jpg", "example-heart.jpg">>
FileNames == {files[k] : k \in 1..Len(files)}
\* a file that is not in the manifest, present before the script ever ran
StrayName == "old.txt"
\* the values a block of a response body can take
BlockValues == {"x", "y"}

(* ------------------------------ helpers -------------------------------- *)
\* the sequences over S of length at most n
RECURSIVE SeqsUpTo(_, _)
SeqsUpTo(S, n) ==
  IF n = 0 THEN {<<>>}
  ELSE LET shorter == SeqsUpTo(S, n - 1)
       IN shorter \cup {Append(s, x) : s \in {t \in shorter : Len(t) = n - 1}, x \in S}

\* the list cut after its first n entries
FirstFiles(n) == SubSeq(files, 1, n)

\* the lists explored, the empty list included
AnyManifests == {FirstFiles(n) : n \in 0..MaxLen}

\* the manifests of the script: as the hardcoded list, they are not empty
Manifests == {m \in AnyManifests : Len(m) > 0}

\* the response bodies the remote host can serve
Bodies == SeqsUpTo(BlockValues, MaxBlocks)

\* Content-Length header values: -1 stands for "no such header"
Sizes == (-1)..(MaxBlocks + 1)

(* ---------------------------- pure functions --------------------------- *)
\* variant: the parts are joined with a separator
UrlJoined(f) == website \o "/" \o f

\* url = website + f
Url(f) == website \o f

\* os.path.join(a, b) for a relative b
JoinPath(a, b) == a \o "/" \o b

\* os.path.join("imgs", f)
DestPath(f) == JoinPath(DestDir, f)

VARIABLES
  manifest,     \* files: the ordered list of filenames
  dirs,         \* file system: the directories that exist
  fs,           \* file system: path of each regular file |-> its content
  pc,           \* position of the script
  i,            \* position in the manifest of the for loop
  resp,         \* the open HTTP response: [body, size]
  read,         \* number of blocks of the response copied so far
  error,        \* the exception that ended the run, or "none"
  runs,         \* number of runs started
  lastResult,   \* outcome of the previous run
  \* history of the current run
  requests,     \* URLs requested, in order
  inflight,     \* manifest positions with an open request
  served,       \* per request answered: [url, body] as served by the host
  completed,    \* number of urlretrieve calls that returned
  mkdirs,       \* number of directories created by this run
  fsAtStart,    \* fs when the run started
  dirsAtStart   \* dirs when the run started

vars == <<manifest, dirs, fs, pc, i, resp, read, error, runs, lastResult,
          requests, inflight, served, completed, mkdirs, fsAtStart,
          dirsAtStart>>

NoResp == [body |-> <<>>, size |-> -1]

\* the file systems a first run can meet
InitialFileSystems ==
  { [d |-> {}, f |-> <<>>],                                    \* path free
    [d |-> {}, f |-> (DestDir :> <<>>)],                        \* plain file
    [d |-> {DestDir}, f |-> <<>>],                              \* empty dir
    [d |-> {DestDir}, f |-> (JoinPath(DestDir, StrayName) :> <<>>)] }

\* the states in which the script is first started, its list drawn from ms
InitWith(ms) ==
  /\ manifest \in ms
  /\ \E s \in InitialFileSystems : 
       dirs = s.d /\ fs = s.f /\ fsAtStart = s.f /\ dirsAtStart = s.d
  /\ pc = "makedirs"
  /\ i = 1
  /\ resp = NoResp
  /\ read = 0
  /\ error = "none"
  /\ runs = 1
  /\ lastResult = "none"
  /\ requests = <<>>
  /\ inflight = {}
  /\ served = <<>>
  /\ completed = 0
  /\ mkdirs = 0

Init == InitWith(Manifests)

\* the script with its list emptied
InitAny == InitWith(AnyManifests)

(* ------------------------------ the run -------------------------------- *)
\* an unhandled exception: the process ends, nothing further is executed
Raise(err) ==
  /\ pc' = "aborted"
  /\ error' = err
  /\ inflight' = {}
  /\ UNCHANGED <<i, completed>>

\* variant: os.makedirs(name, exist_ok=True) accepts an existing directory
MakedirsRaisesExistOk(p) == p \in DOMAIN fs

\* variant: only an existing directory is refused
MakedirsRaisesDirOnly(p) == p \in dirs

\* os.makedirs(name) without exist_ok raises FileExistsError when the path
\* exists, whatever it is
MakedirsRaises(p) == p \in dirs \/ p \in DOMAIN fs

\* variant: the directory is not created before the loop
MakedirsSkipped ==
  /\ pc = "makedirs"
  /\ pc' = "loop"
  /\ UNCHANGED <<manifest, dirs, fs, i, resp, read, error, runs, lastResult,
                 requests, inflight, served, completed, mkdirs, fsAtStart,
                 dirsAtStart>>

\* os.makedirs("imgs")
Makedirs ==
  /\ pc = "makedirs"
  /\ IF MakedirsRaises(DestDir)
       THEN /\ Raise("FileExistsError")
            /\ UNCHANGED <<dirs, mkdirs>>
       ELSE /\ dirs' = dirs \cup {DestDir}
            /\ mkdirs' = mkdirs + 1
            /\ pc' = "loop"
            /\ UNCHANGED <<error, inflight, i, completed>>
  /\ UNCHANGED <<manifest, fs, resp, read, runs, lastResult, requests,
                 served, fsAtStart, dirsAtStart>>

\* for f in files: url = website + f; urlretrieve(url, ...) opens the URL
IssueFetch ==
  /\ pc = "loop"
  /\ i <= Len(manifest)
  /\ requests' = Append(requests, Url(manifest[i]))
  /\ inflight' = inflight \cup {i}
  /\ pc' = "urlopen"
  /\ UNCHANGED <<manifest, dirs, fs, i, resp, read, error, runs, lastResult,
                 served, completed, mkdirs, fsAtStart, dirsAtStart>>

\* the list is exhausted: the script ends normally
Finish ==
  /\ pc = "loop"
  /\ i > Len(manifest)
  /\ pc' = "done"
  /\ UNCHANGED <<manifest, dirs, fs, i, resp, read, error, runs, lastResult,
                 requests, inflight, served, completed, mkdirs, fsAtStart, dirsAtStart>>

\* urlopen(url) answers: the host serves a body, with or without a
\* Content-Length header
UrlopenOk ==
  /\ pc = "urlopen"
  /\ \E b \in Bodies, sz \in Sizes :
       /\ sz = -1 \/ sz >= Len(b)
       /\ resp' = [body |-> b, size |-> sz]
       /\ served' = Append(served, [url |-> requests[Len(requests)], body |-> b])
  /\ pc' = "open"
  /\ UNCHANGED <<manifest, dirs, fs, i, read, error, runs, lastResult,
                 requests, inflight, completed, mkdirs, fsAtStart, dirsAtStart>>

\* variant: the local file is opened before the URL
UrlopenFailAfterOpen ==
  /\ pc = "urlopen"
  /\ fs' = ((DestDir \o "/" \o manifest[i]) :> <<>>) @@ fs
  /\ Raise("HTTPError")
  /\ UNCHANGED <<manifest, dirs, resp, read, runs, lastResult,
                 requests, served, mkdirs, fsAtStart, dirsAtStart>>

\* variant: a failed entry is skipped and the loop continues
UrlopenFailSkip ==
  /\ pc = "urlopen"
  /\ pc' = "loop"
  /\ i' = i + 1
  /\ inflight' = {}
  /\ UNCHANGED <<manifest, dirs, fs, resp, read, error, runs, lastResult,
                 requests, served, completed, mkdirs, fsAtStart, dirsAtStart>>

\* urlopen(url) raises: HTTP error status, DNS failure, connection refused
UrlopenFail ==
  /\ pc = "urlopen"
  /\ Raise("HTTPError")
  /\ UNCHANGED <<manifest, dirs, fs, resp, read, runs, lastResult,
                 requests, served, mkdirs, fsAtStart, dirsAtStart>>

\* open(filename, 'wb'): the file is created, or truncated when present
Truncate(path) == (path :> <<>>) @@ fs

OpenFileOk ==
  /\ pc = "open"
  /\ fs' = Truncate(DestPath(manifest[i]))
  /\ read' = 0
  /\ pc' = "copy"
  /\ UNCHANGED <<manifest, dirs, i, resp, error, runs, lastResult,
                 requests, inflight, served, completed, mkdirs, fsAtStart, dirsAtStart>>

\* open(filename, 'wb') raises: no file is created
OpenFileFail ==
  /\ pc = "open"
  /\ Raise("OpenError")
  /\ UNCHANGED <<manifest, dirs, fs, resp, read, runs, lastResult,
                 requests, served, mkdirs, fsAtStart, dirsAtStart>>

\* variant: each block replaces the content of the file
WriteBlockOverwrite(path, block) == (path :> <<block>>) @@ fs

\* tfp.write(block): the block is appended to the file
WriteBlock(path, block) == (path :> Append(fs[path], block)) @@ fs

\* while block := fp.read(bs): tfp.write(block)
CopyBlock ==
  /\ pc = "copy"
  /\ read < Len(resp.body)
  /\ fs' = WriteBlock(DestPath(manifest[i]), resp.body[read + 1])
  /\ read' = read + 1
  /\ UNCHANGED <<manifest, dirs, pc, i, resp, error, runs, lastResult,
                 requests, inflight, served, completed, mkdirs, fsAtStart, dirsAtStart>>

\* fp.read(bs) raises: the connection broke during the transfer
ReadFail ==
  /\ pc = "copy"
  /\ read < Len(resp.body)
  /\ Raise("ReadError")
  /\ UNCHANGED <<manifest, dirs, fs, resp, read, runs, lastResult,
                 requests, served, mkdirs, fsAtStart, dirsAtStart>>

\* tfp.write(block) raises: disk full, quota
WriteFail ==
  /\ pc = "copy"
  /\ read < Len(resp.body)
  /\ Raise("WriteError")
  /\ UNCHANGED <<manifest, dirs, fs, resp, read, runs, lastResult,
                 requests, served, mkdirs, fsAtStart, dirsAtStart>>

\* urlretrieve: if size >= 0 and read < size: raise ContentTooShortError
TooShort(size, got) == size >= 0 /\ got < size

\* the for loop takes the next entry of the list
NextEntry(k) == k + 1

\* fp.read(bs) returns no more data: the files are closed and urlretrieve
\* returns or raises ContentTooShortError
CopyDone ==
  /\ pc = "copy"
  /\ read = Len(resp.body)
  /\ IF TooShort(resp.size, read)
       THEN /\ Raise("ContentTooShortError")
            /\ UNCHANGED <<resp, read>>
       ELSE /\ completed' = completed + 1
            /\ i' = NextEntry(i)
            /\ inflight' = inflight \ {i}
            /\ resp' = NoResp
            /\ read' = 0
            /\ pc' = "loop"
            /\ UNCHANGED error
  /\ UNCHANGED <<manifest, dirs, fs, runs, lastResult,
                 requests, served, mkdirs, fsAtStart, dirsAtStart>>

\* the script is started again, on the file system the last run left
StartRun ==
  /\ pc \in {"done", "aborted"}
  /\ runs < MaxRuns
  /\ runs' = runs + 1
  /\ lastResult' = IF pc = "done" THEN "success" ELSE "failure"
  /\ pc' = "makedirs"
  /\ i' = 1
  /\ resp' = NoResp
  /\ read' = 0
  /\ error' = "none"
  /\ requests' = <<>>
  /\ inflight' = {}
  /\ served' = <<>>
  /\ completed' = 0
  /\ mkdirs' = 0
  /\ fsAtStart' = fs
  /\ dirsAtStart' = dirs
  /\ UNCHANGED <<manifest, dirs, fs>>

\* one step of the running script
RunStep ==
  \/ Makedirs
  \/ IssueFetch
  \/ UrlopenOk
  \/ UrlopenFail
  \/ OpenFileOk
  \/ OpenFileFail
  \/ CopyBlock
  \/ ReadFail
  \/ WriteFail
  \/ CopyDone
  \/ Finish

Next == RunStep \/ StartRun

Spec == Init /\ [][Next]_vars

\* every call of the script returns or fails
FairSpec == Spec /\ WF_vars(RunStep)

\* the runs of the script when its list may also be empty
SpecAny == InitAny /\ [][Next]_vars

(* --------------------------- derived notions ---------------------------- *)
Terminated == pc \in {"done", "aborted"}

\* the exit status of the process
ExitCode == IF pc = "done" THEN 0 ELSE 1

\* the regular files directly inside the destination directory
AllNames == FileNames \cup {StrayName}
DestFiles == {p \in DOMAIN fs : \E n \in AllNames : p = DestDir \o "/" \o n}

\* the destination paths of the first n manifest entries
PrefixPaths(n) == {DestDir \o "/" \o manifest[k] : k \in 1..n}

\* the body the host served for a URL in this run
ServedBodies(u) == {served[k].body : k \in {j \in 1..Len(served) : served[j].url = u}}

(* ------------------------- notions of the claims ------------------------ *)
\* the destination path of the manifest entry at position k
PathOf(k) == DestDir \o "/" \o manifest[k]

\* s is an initial segment of t
IsPrefix(s, t) == Len(s) <= Len(t) /\ \A k \in 1..Len(s) : s[k] = t[k]

\* the destination path was free when the run started
DestFreeAtStart == DestDir \notin dirsAtStart /\ DestDir \notin DOMAIN fsAtStart

\* the exceptions urlretrieve raises before the local file is opened ...
BeforeOpenErrors == {"HTTPError", "OpenError"}
\* ... and once it is open
AfterOpenErrors == {"ReadError", "WriteError", "ContentTooShortError"}
\* the exceptions that are a failure to fetch from the host
FetchErrors == {"HTTPError", "ReadError", "ContentTooShortError"}

\* the entry at position k has been fetched and written by this run
FetchedAndWritten(k) ==
  /\ k <= completed
  /\ k <= Len(served)
  /\ PathOf(k) \in DOMAIN fs
  /\ fs[PathOf(k)] = served[k].body

(* -------------------------------- C1 ------------------------------------ *)
\* C1: after a run on a non-empty manifest in which the directory creation
\* and every fetch succeeded, the destination directory holds exactly one
\* file per manifest entry, named as the entry, whose content is the body
\* the host served for website + filename, and no other file.
C1_SuccessfulRunFiles ==
  (pc = "done" /\ Len(manifest) > 0) =>
    /\ DestDir \in dirs
    /\ DestFiles = PrefixPaths(Len(manifest))
    /\ Cardinality(DestFiles) = Len(manifest)
    /\ \A k \in 1..Len(manifest) :
         /\ PathOf(k) \in DOMAIN fs
         /\ ServedBodies(website \o manifest[k]) = {fs[PathOf(k)]}

C1_Witness ==
  /\ pc = "done"
  /\ Len(manifest) = 2
  /\ \A k \in 1..2 : PathOf(k) \in DOMAIN fs /\ Len(fs[PathOf(k)]) = 2
  /\ fs[PathOf(1)] # fs[PathOf(2)]

(* -------------------------------- C2 ------------------------------------ *)
\* C2 as stated: when the fetch of entry i fails the run aborts there, no
\* later entry is requested, the files of the entries before i are present
\* and the file of entry i and of every later entry is absent.
C2_Original ==
  (pc = "aborted" /\ error \in FetchErrors) =>
    /\ Len(requests) = i
    /\ \A k \in 1..(i - 1) : PathOf(k) \in DOMAIN fs
    /\ \A k \in i..Len(manifest) : PathOf(k) \notin DOMAIN fs

\* C2 amended: when urlretrieve fails for entry i the run aborts there, no
\* later entry is requested, the files of the entries before i are present
\* and those of the later entries absent; the file of entry i is absent
\* when the failure precedes the opening of the local file (HTTP error) and
\* present, holding the blocks received so far, when it comes later.
C2_AbortAtFailedEntry ==
  (pc = "aborted" /\ error \in BeforeOpenErrors \cup AfterOpenErrors) =>
    /\ i <= Len(manifest)
    /\ Len(requests) = i
    /\ \A k \in 1..(i - 1) : FetchedAndWritten(k)
    /\ \A k \in (i + 1)..Len(manifest) : PathOf(k) \notin DOMAIN fs
    /\ error \in BeforeOpenErrors => PathOf(i) \notin DOMAIN fs
    /\ error \in AfterOpenErrors =>
         /\ PathOf(i) \in DOMAIN fs
         /\ IsPrefix(fs[PathOf(i)], served[i].body)

C2_Witness ==
  /\ pc = "aborted"
  /\ error = "HTTPError"
  /\ Len(manifest) = 3
  /\ i = 2
  /\ PathOf(1) \in DOMAIN fs
  /\ PathOf(2) \notin DOMAIN fs
  /\ PathOf(3) \notin DOMAIN fs

(* -------------------------------- C3 ------------------------------------ *)
\* C3: a run that follows a successful run on the same directory fails at
\* the directory creation, before any request and any write: the files of
\* the first run are unchanged.
C3_SecondRunFailsAtMakedirs ==
  (runs >= 2 /\ lastResult = "success") =>
    /\ pc \in {"makedirs", "aborted"}
    /\ pc = "aborted" => error = "FileExistsError"
    /\ requests = <<>>
    /\ mkdirs = 0
    /\ fs = fsAtStart

C3_Witness ==
  /\ runs = 2
  /\ lastResult = "success"
  /\ pc = "aborted"
  /\ error = "FileExistsError"
  /\ Cardinality(DestFiles) = 2

(* -------------------------------- C4 ------------------------------------ *)
\* C4: when the destination path is a plain file, the run fails at the
\* directory creation; nothing is requested and nothing is written.
C4_PlainFileBlocksRun ==
  (DestDir \in DOMAIN fsAtStart) =>
    /\ pc \in {"makedirs", "aborted"}
    /\ pc = "aborted" => error = "FileExistsError"
    /\ requests = <<>>
    /\ inflight = {}
    /\ fs = fsAtStart
    /\ DestDir \notin dirs

C4_Witness ==
  /\ DestDir \in DOMAIN fsAtStart
  /\ Len(manifest) > 0
  /\ pc = "aborted"
  /\ error = "FileExistsError"

(* -------------------------------- C5 ------------------------------------ *)
\* C5 as stated: a run started on an existing empty directory does not
\* fail at the directory setup.
C5_Original ==
  (DestDir \in dirsAtStart /\ DOMAIN fsAtStart = {}) =>
    error # "FileExistsError"

\* C5 amended: the directory setup fails exactly when the destination path
\* exists when the run starts, be it a plain file, a non-empty directory
\* or an empty directory; such a run requests nothing.
C5_SetupFailsIffPathExists ==
  (pc # "makedirs") =>
    /\ (error = "FileExistsError") <=> ~DestFreeAtStart
    /\ ~DestFreeAtStart => (pc = "aborted" /\ requests = <<>> /\ fs = fsAtStart)

C5_Witness ==
  /\ DestDir \in dirsAtStart
  /\ DOMAIN fsAtStart = {}
  /\ runs = 1
  /\ Len(manifest) > 0
  /\ pc = "aborted"
  /\ error = "FileExistsError"

(* -------------------------------- C6 ------------------------------------ *)
\* C6: with an empty manifest and a free destination path the run requests
\* nothing, creates the directory and ends in success.
C6_EmptyManifest ==
  (manifest = <<>> /\ DestFreeAtStart /\ pc # "makedirs") =>
    /\ pc \in {"loop", "done"}
    /\ error = "none"
    /\ requests = <<>>
    /\ DestDir \in dirs
    /\ mkdirs = 1
    /\ fs = fsAtStart
    /\ pc = "done" => ExitCode = 0

C6_Witness ==
  /\ manifest = <<>>
  /\ DestFreeAtStart
  /\ pc = "done"
  /\ DestDir \in dirs

(* -------------------------------- C7 ------------------------------------ *)
\* the final state of a run: success (exit code 0, no exception) exactly
\* when every filename of the manifest was fetched and written, failure
\* (non-zero exit code, the exception recorded) otherwise
C7_FinalState ==
  Terminated =>
    /\ (pc = "done") <=> (\A k \in 1..Len(manifest) : FetchedAndWritten(k))
    /\ (pc = "done") <=> (error = "none")
    /\ (pc = "done") <=> (ExitCode = 0)
    /\ (pc = "aborted") <=> (ExitCode # 0)
    /\ inflight = {}

\* C7: provided every call returns or fails, every run terminates, in
\* success (exit code 0) or aborted at the first error (non-zero exit
\* code); it ends in success if and only if every filename of the manifest
\* was fetched and written, and any directory, fetch or write failure makes
\* the run a failure.
C7_TerminatesSuccessOrAbort ==
  /\ []C7_FinalState
  /\ [][error' # error /\ error' # "none" => pc' = "aborted"]_vars
  /\ (~Terminated) ~> Terminated

C7_Witness ==
  /\ pc = "aborted"
  /\ error = "WriteError"
  /\ completed = 1
  /\ Len(manifest) = 2

(* -------------------------------- C8 ------------------------------------ *)
\* C8: the requests of a run are those of the manifest, in manifest order,
\* each position at most once, to the URL website + filename; at most one
\* request is open at a time, and the request for position k+1 is made
\* only when the fetch of position k has returned and its file is written.
C8_SequentialInOrder ==
  /\ Cardinality(inflight) <= 1
  /\ inflight \subseteq {Len(requests)}
  /\ Len(requests) <= Len(manifest)
  /\ \A k \in 1..Len(requests) : requests[k] = website \o manifest[k]
  /\ Len(requests) <= completed + 1
  /\ \A k \in 1..(Len(requests) - 1) : FetchedAndWritten(k)

C8_Witness ==
  /\ Len(requests) = 2
  /\ inflight = {2}
  /\ pc = "copy"
  /\ completed = 1

(* -------------------------------- C9 ------------------------------------ *)
\* C9: a run creates the destination directory at most once, and whenever
\* it has made a request or written a file the directory exists and was
\* created by this run, exactly once.
C9_DirectoryCreatedFirst ==
  /\ mkdirs <= 1
  /\ (requests # <<>> \/ fs # fsAtStart) =>
       /\ DestDir \in dirs
       /\ DestDir \notin dirsAtStart
       /\ mkdirs = 1

C9_Witness ==
  /\ requests # <<>>
  /\ fs # fsAtStart
  /\ mkdirs = 1
  /\ DestDir \in dirs

(* -------------------------------- C10 ----------------------------------- *)
\* C10 as stated: in a run that created the directory, the files in it are
\* exactly those of the entries whose fetch has completed successfully.
C10_Original ==
  (mkdirs = 1) => DestFiles = PrefixPaths(completed)

\* the local file of the entry being fetched has been opened
CurrentFileOpened ==
  \/ pc = "copy"
  \/ pc = "aborted" /\ error \in AfterOpenErrors

\* C10 amended: in a run that created the directory, the files in it are
\* those of a prefix of the manifest: the entries whose fetch has
\* completed, and also the entry being fetched once its local file has
\* been opened, whether the transfer is under way or has failed.
C10_PrefixInvariant ==
  (mkdirs = 1) =>
    /\ completed <= Len(manifest)
    /\ DestFiles = PrefixPaths(IF CurrentFileOpened THEN completed + 1 ELSE completed)
    /\ CurrentFileOpened => completed + 1 <= Len(manifest)
    /\ \A k \in 1..completed : FetchedAndWritten(k)

C10_Witness ==
  /\ mkdirs = 1
  /\ pc = "aborted"
  /\ error = "ReadError"
  /\ completed = 1
  /\ Cardinality(DestFiles) = 2
=============================================================================
